---- MODULE Spec2Model ----
(***************************************************************************)
(* Model of src/app.py: the month-by-month investment and savings engines  *)
(* (run_investment_simulation, run_savings_simulation) and the part of     *)
(* main() that validates the horizon, invokes the engines and keeps the    *)
(* results in the session.                                                 *)
(*                                                                         *)
(* Numbers.  The program computes in binary floating point.  Here a money  *)
(* amount is an integer number of currency units and a factor or rate is   *)
(* a fixed-point number with SCALE units to 1 (1.0 is SCALE); a product    *)
(* or quotient is rounded down to the unit, as a float operation rounds    *)
(* to its last place.  Sums and differences are exact.                     *)
(***************************************************************************)
EXTENDS Integers, Sequences, FiniteSets

\* Fixed-point units per 1.0 of a factor, rate or exchange rate.
SCALE == 10000
\* Largest horizon (investment_years) the model runs.
MaxYears == 2

MONTHS_IN_YEAR == 12

Max(a, b) == IF a >= b THEN a ELSE b

Abs(a) == IF a >= 0 THEN a ELSE -a

\* a * f for an amount a and a fixed-point factor f, rounded down; the
\* product is split so that no intermediate value leaves 32 bits.
FMul(a, f) == (a \div SCALE) * f + ((a % SCALE) * f) \div SCALE

\* a / f for an amount a and a fixed-point divisor f > 0, rounded down.
FDiv(a, f) == (a \div f) * SCALE + ((a % f) * SCALE) \div f

\* r / 100 for a rate r given in percent, as a fixed-point number.
Pct(r) == (r * SCALE) \div 100

RECURSIVE Pow(_, _)
\* y ** n for a fixed-point y and a natural n.
Pow(y, n) == IF n = 0 THEN SCALE ELSE FMul(Pow(y, n - 1), y)

RECURSIVE RootSearch(_, _, _, _)
\* The largest y in lo..hi with y ** n <= x (bisection).
RootSearch(x, n, lo, hi) ==
    IF lo >= hi THEN lo
    ELSE LET mid == (lo + hi + 1) \div 2
         IN  IF Pow(mid, n) <= x THEN RootSearch(x, n, mid, hi)
                                 ELSE RootSearch(x, n, lo, mid - 1)

\* x ** (1/n) for a fixed-point x between 0.5 ** n and 2 ** n.
Root(x, n) == RootSearch(x, n, SCALE \div 2, 2 * SCALE)

\* (1 + r / 100) ** (1 / MONTHS_IN_YEAR) - 1, the monthly rate of the
\* annual rate r (percent) by compounding.
ToMonthly(r) == Root(SCALE + Pct(r), MONTHS_IN_YEAR) - SCALE

(***************************************************************************)
(* run_investment_simulation                                               *)
(***************************************************************************)

\* The loop bound of both engines.
TotalMonths(in) == in.investment_years * MONTHS_IN_YEAR

\* A mutant of IsYearEnd: a record every half year.
IsHalfYearEnd(month) == month % (MONTHS_IN_YEAR \div 2) = 0

\* month % MONTHS_IN_YEAR == 0: the month closes a year.
IsYearEnd(month) == month % MONTHS_IN_YEAR = 0

\* month // MONTHS_IN_YEAR, the YEAR column of a record.
YearIndex(month) == month \div MONTHS_IN_YEAR

\* A mutant of IsFinalMonth: the gains tax of every year end.
IsAnyMonth(month, total_months) == month <= total_months

\* month == total_months: the year end that closes the horizon.
IsFinalMonth(month, total_months) == month = total_months

\* A mutant of GrowthFactor: the rate subtracted.
ShrinkFactor(rate) == SCALE - rate

\* 1 + monthly_growth_rate.
GrowthFactor(rate) == SCALE + rate

\* A mutant of TaxableGains: the allowance subtracted without the clamp.
UnclampedGains(capital_gains_krw_val, deduction_krw) ==
    capital_gains_krw_val - deduction_krw

\* max(0, capital_gains_krw_val - deduction_krw).
TaxableGains(capital_gains_krw_val, deduction_krw) ==
    Max(0, capital_gains_krw_val - deduction_krw)

\* A mutant of Reinvested: the dividend enters the asset and the cost basis
\* whether or not dividends are reinvested.
AlwaysReinvested(in, dividend_after_tax) == dividend_after_tax

\* What "if inputs.reinvest_dividends" adds to asset_usd and cost_basis_usd.
Reinvested(in, dividend_after_tax) ==
    IF in.reinvest_dividends THEN dividend_after_tax ELSE 0

\* A mutant of Contribution: the monthly amount converted at the exchange
\* rate of the month instead of the initial one.
ContributionAtCurrentRate(in, s) ==
    FDiv(in.monthly_investment_krw, s.current_exchange_rate)

\* monthly_investment_usd, converted once before the loop.
Contribution(in, s) == s.monthly_investment_usd

\* A mutant of SeedUsd: the seed left out of the principal.
NoSeedUsd(in) == 0

\* seed_money_usd = seed_money_krw / exchange_rate.
SeedUsd(in) == FDiv(in.seed_money_krw, in.exchange_rate * SCALE)

\* The locals of run_investment_simulation before the loop.  The locals a
\* later statement binds first (dividend_after_tax, the tax figures) read 0
\* until then.
InvStart(in) ==
    [ month                        |-> 0,
      monthly_investment_usd       |-> FDiv(in.monthly_investment_krw,
                                            in.exchange_rate * SCALE),
      monthly_growth_rate          |-> ToMonthly(in.annual_price_growth_rate),
      monthly_dividend_yield       |-> ToMonthly(in.annual_dividend_yield),
      monthly_expense_ratio        |-> ToMonthly(in.annual_expense_ratio),
      monthly_exchange_rate_change |-> ToMonthly(in.annual_exchange_rate_change),
      asset_usd                    |-> SeedUsd(in),
      principal_usd                |-> SeedUsd(in),
      cost_basis_usd               |-> SeedUsd(in),
      cumulative_dividends_usd     |-> 0,
      current_exchange_rate        |-> in.exchange_rate * SCALE,
      dividend_after_tax           |-> 0,
      final_asset_usd              |-> 0,
      taxable_gains_krw            |-> 0,
      capital_gains_tax_krw        |-> 0,
      capital_gains_tax_usd        |-> 0,
      results                      |-> << >> ]

\* One iteration of the loop "for month in range(1, total_months + 1)".
InvStep(in, s) ==
    LET month == s.month + 1
        grown == FMul(s.asset_usd, GrowthFactor(s.monthly_growth_rate))
        charged == FMul(grown, SCALE - s.monthly_expense_ratio)
        monthly_dividend == FMul(charged, s.monthly_dividend_yield)
        dividend_after_tax ==
            FMul(monthly_dividend, SCALE - Pct(in.dividend_tax_rate))
        asset_usd == charged + Reinvested(in, dividend_after_tax)
                             + Contribution(in, s)
        principal_usd == s.principal_usd + Contribution(in, s)
        cost_basis_usd == s.cost_basis_usd + Reinvested(in, dividend_after_tax)
                                           + Contribution(in, s)
        cumulative_dividends_usd ==
            s.cumulative_dividends_usd + dividend_after_tax
        current_exchange_rate ==
            FMul(s.current_exchange_rate, SCALE + s.monthly_exchange_rate_change)
        \* the year-end block
        final == IsFinalMonth(month, TotalMonths(in))
        pre_tax_asset_krw == FMul(asset_usd, current_exchange_rate)
        capital_gains_krw_val ==
            FMul(asset_usd - cost_basis_usd, current_exchange_rate)
        taxable_gains_krw ==
            TaxableGains(capital_gains_krw_val, in.capital_gains_deduction_krw)
        capital_gains_tax_krw ==
            FMul(taxable_gains_krw, Pct(in.capital_gains_tax_rate))
        capital_gains_tax_usd == FDiv(capital_gains_tax_krw, current_exchange_rate)
        final_asset_usd ==
            IF final THEN asset_usd - capital_gains_tax_usd ELSE asset_usd
        capital_gains_usd ==
            IF final THEN asset_usd - cost_basis_usd - capital_gains_tax_usd
                     ELSE asset_usd - cost_basis_usd
        final_annual_dividend_krw ==
            IF final
            THEN FMul(FMul(pre_tax_asset_krw, Pct(in.annual_dividend_yield)),
                      SCALE - Pct(in.dividend_tax_rate))
            ELSE 0
        record ==
            [ YEAR                      |-> YearIndex(month),
              PRINCIPAL_KRW             |-> FMul(principal_usd, current_exchange_rate),
              PRE_TAX_ASSET_KRW         |-> pre_tax_asset_krw,
              ASSET_KRW                 |-> FMul(final_asset_usd, current_exchange_rate),
              CAPITAL_GAINS_KRW         |-> FMul(capital_gains_usd, current_exchange_rate),
              CUMULATIVE_DIVIDEND_KRW   |-> FMul(cumulative_dividends_usd,
                                                 current_exchange_rate),
              FINAL_ANNUAL_DIVIDEND_KRW |-> final_annual_dividend_krw ]
        taxed == IsYearEnd(month) /\ final
    IN  [ s EXCEPT
          !.month = month,
          !.asset_usd = asset_usd,
          !.principal_usd = principal_usd,
          !.cost_basis_usd = cost_basis_usd,
          !.cumulative_dividends_usd = cumulative_dividends_usd,
          !.current_exchange_rate = current_exchange_rate,
          !.dividend_after_tax = dividend_after_tax,
          !.final_asset_usd = IF IsYearEnd(month) THEN final_asset_usd ELSE @,
          !.taxable_gains_krw = IF taxed THEN taxable_gains_krw ELSE @,
          !.capital_gains_tax_krw = IF taxed THEN capital_gains_tax_krw ELSE @,
          !.capital_gains_tax_usd = IF taxed THEN capital_gains_tax_usd ELSE @,
          !.results = IF IsYearEnd(month) THEN Append(@, record) ELSE @ ]

\* The loop has run out: month has reached total_months (at once when
\* total_months <= 0).
InvLoopDone(in, s) == s.month >= TotalMonths(in)

RECURSIVE InvLoop(_, _)
InvLoop(in, s) == IF InvLoopDone(in, s) THEN s ELSE InvLoop(in, InvStep(in, s))

\* run_investment_simulation(inputs): the rows of the returned frame.
RunInvestment(in) == InvLoop(in, InvStart(in)).results

(***************************************************************************)
(* run_savings_simulation                                                  *)
(***************************************************************************)

\* A mutant of SavMonthlyRate: the deposit rate converted by compounding,
\* as the investment engine converts its rates.
SavMonthlyRateCompound(r) == ToMonthly(r)

\* monthly_rate = savings_interest_rate / 100 / MONTHS_IN_YEAR.
SavMonthlyRate(r) == Pct(r) \div MONTHS_IN_YEAR

\* A mutant of ResetInterest: the year's interest carried into the next year.
KeepInterest(interest_for_year) == interest_for_year

\* interest_for_year = 0.0 after a year's record.
ResetInterest(interest_for_year) == 0

\* The locals of run_savings_simulation before the loop (interest and tax,
\* bound inside the loop, read 0 until then).
SavStart(in) ==
    [ month             |-> 0,
      monthly_rate      |-> SavMonthlyRate(in.savings_interest_rate),
      tax_rate          |-> Pct(in.savings_tax_rate),
      asset             |-> in.seed_money_krw,
      interest_for_year |-> 0,
      interest          |-> 0,
      tax               |-> 0,
      results           |-> << >> ]

\* One iteration of the loop "for month in range(1, total_months + 1)".
SavStep(in, s) ==
    LET month == s.month + 1
        interest == FMul(s.asset, s.monthly_rate)
        interest_for_year == s.interest_for_year + interest
        asset == s.asset + interest + in.monthly_investment_krw
        taxable_interest == Max(0, interest_for_year)
        tax == FMul(taxable_interest, s.tax_rate)
        record == [ YEAR |-> YearIndex(month), SAVINGS_ASSET_KRW |-> asset - tax ]
    IN  IF IsYearEnd(month)
        THEN [ s EXCEPT !.month = month,
                        !.interest = interest,
                        !.tax = tax,
                        !.asset = asset - tax,
                        !.interest_for_year = ResetInterest(interest_for_year),
                        !.results = Append(@, record) ]
        ELSE [ s EXCEPT !.month = month,
                        !.interest = interest,
                        !.asset = asset,
                        !.interest_for_year = interest_for_year ]

SavLoopDone(in, s) == s.month >= TotalMonths(in)

RECURSIVE SavLoop(_, _)
SavLoop(in, s) == IF SavLoopDone(in, s) THEN s ELSE SavLoop(in, SavStep(in, s))

\* run_savings_simulation(inputs): the rows of the returned frame.
RunSavings(in) == SavLoop(in, SavStart(in)).results

(***************************************************************************)
(* main                                                                    *)
(***************************************************************************)

\* A key the session does not hold, a function that is not running.
None == [ none |-> TRUE ]

\* No frame: the session holds no results_df.
NoFrame == << >>

\* No st.warning or st.error, nothing displayed yet.
Nothing == "nothing"

\* A mutant of HorizonValid: a horizon of zero years let through.
HorizonNotNegative(in) == in.investment_years >= 0

\* "if inputs.investment_years > 0:".
HorizonValid(in) == in.investment_years > 0

\* pd.merge(inv_df, sav_df, on=YEAR, how="left"): every row of inv_df, with
\* the savings column of the row of sav_df of the same year (NaN when there
\* is none).  YEAR is unique in both frames, so no row is repeated.
Merge(inv_df, sav_df) ==
    [ i \in DOMAIN inv_df |->
        LET same == { j \in DOMAIN sav_df : sav_df[j].YEAR = inv_df[i].YEAR }
        IN  [ row               |-> inv_df[i],
              SAVINGS_ASSET_KRW |-> IF same = {} THEN "NaN"
                                    ELSE sav_df[CHOOSE j \in same : TRUE].SAVINGS_ASSET_KRW ] ]

\* st.session_state when the script first runs.
SessionStart == [ simulation_run |-> FALSE, results_df |-> NoFrame, inputs |-> None ]

\* The body of "if run_button:" as the session it leaves, the engines it
\* calls and the message it shows.
RunBlock(in, sess) ==
    IF HorizonValid(in)
    THEN LET inv_df == RunInvestment(in)
             sav_df == RunSavings(in)
         IN  IF inv_df # << >> /\ sav_df # << >>
             THEN [ session |-> [ simulation_run |-> TRUE,
                                  results_df     |-> Merge(inv_df, sav_df),
                                  inputs         |-> in ],
                    calls   |-> << "run_investment_simulation", "run_savings_simulation" >>,
                    message |-> Nothing ]
             ELSE [ session |-> [ sess EXCEPT !.simulation_run = FALSE ],
                    calls   |-> << "run_investment_simulation", "run_savings_simulation" >>,
                    message |-> "error" ]
    ELSE [ session |-> [ sess EXCEPT !.simulation_run = FALSE ],
           calls   |-> << >>,
           message |-> "warning" ]

(***************************************************************************)
(* State                                                                   *)
(***************************************************************************)

VARIABLES
    pc,          \* which function runs: "inv", "sav", "twin", "main", "done"
    inputs,      \* the SimulationInputs of the run
    inv,         \* the locals of run_investment_simulation
    sav,         \* the locals of run_savings_simulation
    inputs2,     \* a second SimulationInputs, for a second run beside the first
    twin,        \* the locals of run_investment_simulation(inputs2)
    session,     \* st.session_state
    run_button,  \* main: the button's value in the last script run
    calls,       \* main: the engines the last script run called
    message,     \* main: the st.warning / st.error of the last script run
    displayed    \* main: what the last script run showed below the form

vars == << pc, inputs, inv, sav, inputs2, twin, session, run_button, calls,
           message, displayed >>

(***************************************************************************)
(* Inputs.  The engines take any SimulationInputs; the runs below draw     *)
(* them from these sets.  Amounts are kept small multiples of the exchange *)
(* rate, rates whole percents.                                             *)
(***************************************************************************)

Years == 0 .. MaxYears

\* The inputs of the runs of run_investment_simulation.
InvInputSpace ==
    [ monthly_investment_krw      : {0, 120000},
      investment_years            : Years,
      seed_money_krw              : {0, 1000000},
      annual_inflation_rate       : {2},
      annual_price_growth_rate    : {-20, 0, 12},
      annual_dividend_yield       : {0, 6},
      reinvest_dividends          : BOOLEAN,
      annual_expense_ratio        : {0, 2},
      dividend_tax_rate           : {15},
      capital_gains_tax_rate      : {22, 100},
      capital_gains_deduction_krw : {0, 250000},
      exchange_rate               : {2},
      annual_exchange_rate_change : {-10, 0, 10},
      savings_interest_rate       : {3},
      savings_tax_rate            : {15} ]

\* The inputs of the runs of run_savings_simulation.
SavInputSpace ==
    [ monthly_investment_krw      : {0, 100000, 500000},
      investment_years            : Years,
      seed_money_krw              : {0, 1000000},
      annual_inflation_rate       : {2},
      annual_price_growth_rate    : {7},
      annual_dividend_yield       : {3},
      reinvest_dividends          : {TRUE},
      annual_expense_ratio        : {0},
      dividend_tax_rate           : {15},
      capital_gains_tax_rate      : {22},
      capital_gains_deduction_krw : {250000},
      exchange_rate               : {2},
      annual_exchange_rate_change : {0},
      savings_interest_rate       : {0, 3, 12},
      savings_tax_rate            : {0, 15, 50} ]

\* The inputs of the runs of both engines, one after the other.
PairInputSpace ==
    [ monthly_investment_krw      : {0, 120000},
      investment_years            : Years,
      seed_money_krw              : {0, 1000000},
      annual_inflation_rate       : {2},
      annual_price_growth_rate    : {0, 6, 12},
      annual_dividend_yield       : {0, 6},
      reinvest_dividends          : {TRUE},
      annual_expense_ratio        : {0},
      dividend_tax_rate           : {15},
      capital_gains_tax_rate      : {22},
      capital_gains_deduction_krw : {250000},
      exchange_rate               : {1, 2},
      annual_exchange_rate_change : {0},
      savings_interest_rate       : {0, 6, 12},
      savings_tax_rate            : {0, 15} ]

\* The inputs of the first of two runs of run_investment_simulation.
TwinInputSpace ==
    [ monthly_investment_krw      : {0, 120000},
      investment_years            : Years,
      seed_money_krw              : {1000000},
      annual_inflation_rate       : {2},
      annual_price_growth_rate    : {0, 12},
      annual_dividend_yield       : {0, 6},
      reinvest_dividends          : BOOLEAN,
      annual_expense_ratio        : {0, 2},
      dividend_tax_rate           : {15},
      capital_gains_tax_rate      : {22},
      capital_gains_deduction_krw : {0, 250000},
      exchange_rate               : {2},
      annual_exchange_rate_change : {-10, 0, 10},
      savings_interest_rate       : {3},
      savings_tax_rate            : {15} ]

\* The exchange-rate drift of the second run.
TwinDrifts == {-10, 0, 10}

\* The inputs the form hands to main.
MainInputSpace ==
    [ monthly_investment_krw      : {100000, 500000},
      investment_years            : Years,
      seed_money_krw              : {0, 1000000},
      annual_inflation_rate       : {2},
      annual_price_growth_rate    : {7},
      annual_dividend_yield       : {3},
      reinvest_dividends          : {TRUE},
      annual_expense_ratio        : {0},
      dividend_tax_rate           : {15},
      capital_gains_tax_rate      : {22},
      capital_gains_deduction_krw : {250000},
      exchange_rate               : {2},
      annual_exchange_rate_change : {0},
      savings_interest_rate       : {3},
      savings_tax_rate            : {15} ]

(***************************************************************************)
(* Actions                                                                 *)
(***************************************************************************)

MainIdle ==
    /\ session = SessionStart
    /\ run_button = FALSE
    /\ calls = << >>
    /\ message = Nothing
    /\ displayed = Nothing

MainUnchanged == UNCHANGED << session, run_button, calls, message, displayed >>

\* A call of run_investment_simulation(inputs), at its loop.
InitInv ==
    /\ pc = "inv"
    /\ inputs \in InvInputSpace
    /\ inv = InvStart(inputs)
    /\ sav = None
    /\ inputs2 = None
    /\ twin = None
    /\ MainIdle

\* A call of run_savings_simulation(inputs), at its loop.
InitSav ==
    /\ pc = "sav"
    /\ inputs \in SavInputSpace
    /\ inv = None
    /\ sav = SavStart(inputs)
    /\ inputs2 = None
    /\ twin = None
    /\ MainIdle

\* The two calls of main, run_investment_simulation(inputs) and then
\* run_savings_simulation(inputs).
InitPair ==
    /\ pc = "inv"
    /\ inputs \in PairInputSpace
    /\ inv = InvStart(inputs)
    /\ sav = SavStart(inputs)
    /\ inputs2 = None
    /\ twin = None
    /\ MainIdle

\* Two calls of run_investment_simulation whose inputs differ at most in
\* annual_exchange_rate_change, run side by side.
InitTwin ==
    /\ pc = "twin"
    /\ inputs \in TwinInputSpace
    /\ \E d \in TwinDrifts :
          inputs2 = [ inputs EXCEPT !.annual_exchange_rate_change = d ]
    /\ inv = InvStart(inputs)
    /\ twin = InvStart(inputs2)
    /\ sav = None
    /\ MainIdle

\* The script before its first run.
InitMain ==
    /\ pc = "main"
    /\ inputs = None
    /\ inv = None
    /\ sav = None
    /\ inputs2 = None
    /\ twin = None
    /\ MainIdle

\* One iteration of the loop of run_investment_simulation.
InvMonth ==
    /\ pc = "inv"
    /\ ~InvLoopDone(inputs, inv)
    /\ inv' = InvStep(inputs, inv)
    /\ UNCHANGED << pc, inputs, sav, inputs2, twin >>
    /\ MainUnchanged

\* run_investment_simulation returns; run_savings_simulation is next.
InvReturn ==
    /\ pc = "inv"
    /\ InvLoopDone(inputs, inv)
    /\ pc' = "sav"
    /\ UNCHANGED << inputs, inv, sav, inputs2, twin >>
    /\ MainUnchanged

\* One iteration of the loop of run_savings_simulation.
SavMonth ==
    /\ pc = "sav"
    /\ ~SavLoopDone(inputs, sav)
    /\ sav' = SavStep(inputs, sav)
    /\ UNCHANGED << pc, inputs, inv, inputs2, twin >>
    /\ MainUnchanged

\* run_savings_simulation returns.
SavReturn ==
    /\ pc = "sav"
    /\ SavLoopDone(inputs, sav)
    /\ pc' = "done"
    /\ UNCHANGED << inputs, inv, sav, inputs2, twin >>
    /\ MainUnchanged

\* One iteration of the loop in each of the two runs.
TwinMonth ==
    /\ pc = "twin"
    /\ ~InvLoopDone(inputs, inv)
    /\ inv' = InvStep(inputs, inv)
    /\ twin' = InvStep(inputs2, twin)
    /\ UNCHANGED << pc, inputs, sav, inputs2 >>
    /\ MainUnchanged

\* Both runs return.
TwinReturn ==
    /\ pc = "twin"
    /\ InvLoopDone(inputs, inv)
    /\ pc' = "done"
    /\ UNCHANGED << inputs, inv, sav, inputs2, twin >>
    /\ MainUnchanged

\* One run of the script main(): the form builds the inputs, the button is
\* pressed or not, the run block stores or rejects, and the summary or the
\* hint is shown.
MainRun ==
    /\ pc = "main"
    /\ \E in \in MainInputSpace, button \in BOOLEAN :
       \E out \in { IF button THEN RunBlock(in, session)
                    ELSE [ session |-> session, calls |-> << >>, message |-> Nothing ] } :
          /\ inputs' = in
          /\ run_button' = button
          /\ session' = out.session
          /\ calls' = out.calls
          /\ message' = out.message
          /\ displayed' = IF out.session.simulation_run THEN "summary" ELSE "info"
    /\ UNCHANGED << pc, inv, sav, inputs2, twin >>

NextInv == InvMonth \/ InvReturn

NextSav == SavMonth \/ SavReturn

NextPair == InvMonth \/ InvReturn \/ SavMonth \/ SavReturn

NextTwin == TwinMonth \/ TwinReturn

NextMain == MainRun

SpecInv == InitInv /\ [][NextInv]_vars

SpecSav == InitSav /\ [][NextSav]_vars

SpecPair == InitPair /\ [][NextPair]_vars

SpecTwin == InitTwin /\ [][NextTwin]_vars

SpecMain == InitMain /\ [][NextMain]_vars

(***************************************************************************)
(* Properties                                                              *)
(***************************************************************************)

\* Rounding slack, in currency units, allowed to two figures that the
\* arithmetic rounds differently.
RoundingSlack == 10

\* The records of a run are those of the completed years, numbered in order.
RecordsOfCompletedYears(s) ==
    /\ Len(s.results) = s.month \div MONTHS_IN_YEAR
    /\ \A i \in 1 .. Len(s.results) : s.results[i].YEAR = i

\* A step of a run leaves its records alone or, at a year end, appends one.
RecordsOnlyAppended(s, t) ==
    \/ t.results = s.results
    \/ /\ t.month % MONTHS_IN_YEAR = 0
       /\ Len(t.results) = Len(s.results) + 1
       /\ SubSeq(t.results, 1, Len(s.results)) = s.results

\* C1: both engines emit one record per completed year, only in months with
\* month mod 12 = 0, numbered 1, 2, ..., N in order; after both have run the
\* two series have the same years 1..N (none when N = 0); a record once
\* emitted is never changed.
C1_OneRecordPerYear ==
    /\ [](/\ RecordsOfCompletedYears(inv)
          /\ RecordsOfCompletedYears(sav)
          /\ pc = "done" =>
               /\ Len(inv.results) = inputs.investment_years
               /\ Len(sav.results) = inputs.investment_years
               /\ { inv.results[i].YEAR : i \in DOMAIN inv.results }
                    = 1 .. inputs.investment_years
               /\ { sav.results[i].YEAR : i \in DOMAIN sav.results }
                    = 1 .. inputs.investment_years)
    /\ [][RecordsOnlyAppended(inv, inv') /\ RecordsOnlyAppended(sav, sav')]_vars

C1_Witness ==
    /\ pc = "done"
    /\ inputs.investment_years >= 2
    /\ Len(inv.results) >= 2
    /\ Len(sav.results) >= 2
    /\ inv.results[2].YEAR = 2
    /\ sav.results[2].YEAR = 2

\* The last record of the investment run.
LastInv == inv.results[Len(inv.results)]

\* The investment run has passed its last month, of a horizon of a year or more.
InvFinal == inputs.investment_years >= 1 /\ inv.month = TotalMonths(inputs)

\* capital_gains_krw_val as the year-end block computes it from the state.
GainsKrw(s) == FMul(s.asset_usd - s.cost_basis_usd, s.current_exchange_rate)

\* C2: the capital-gains tax is levied once, in the record of year N: no tax
\* figure is set before the last month; every record of a year before N has
\* its post-tax asset value equal to its pre-tax asset value and reports
\* asset_value - cost_basis as its capital gains.
C2_SingleGainsTax ==
    /\ inv.month < TotalMonths(inputs) =>
         /\ inv.taxable_gains_krw = 0
         /\ inv.capital_gains_tax_krw = 0
         /\ inv.capital_gains_tax_usd = 0
    /\ \A i \in 1 .. Len(inv.results) :
         inv.results[i].YEAR < inputs.investment_years =>
            inv.results[i].ASSET_KRW = inv.results[i].PRE_TAX_ASSET_KRW
    /\ (IsYearEnd(inv.month) /\ 0 < inv.month /\ inv.month < TotalMonths(inputs)) =>
         /\ inv.final_asset_usd = inv.asset_usd
         /\ LastInv.CAPITAL_GAINS_KRW = GainsKrw(inv)
    /\ \A i \in 1 .. Len(inv.results) :
         inv.results[i].ASSET_KRW < inv.results[i].PRE_TAX_ASSET_KRW =>
            inv.results[i].YEAR = inputs.investment_years

\* A two-year run whose first year already shows a gain above the allowance
\* and a tax rate above zero, untaxed in year 1 and taxed in year 2.
C2_Witness ==
    /\ InvFinal
    /\ inputs.investment_years = 2
    /\ inputs.capital_gains_tax_rate > 0
    /\ inv.results[1].CAPITAL_GAINS_KRW > inputs.capital_gains_deduction_krw
    /\ inv.results[1].ASSET_KRW = inv.results[1].PRE_TAX_ASSET_KRW
    /\ inv.results[2].ASSET_KRW < inv.results[2].PRE_TAX_ASSET_KRW

\* C3: at the horizon end, a capital gain not above the allowance (a loss
\* included) is taxed 0 and the final record's post-tax asset value is its
\* pre-tax asset value; the taxable base is never negative, and the tax is
\* neither negative nor more than the gain above the allowance.
C3_AllowanceClamp ==
    InvFinal =>
       /\ GainsKrw(inv) <= inputs.capital_gains_deduction_krw =>
            /\ inv.capital_gains_tax_krw = 0
            /\ inv.capital_gains_tax_usd = 0
            /\ LastInv.ASSET_KRW = LastInv.PRE_TAX_ASSET_KRW
       /\ inv.taxable_gains_krw >= 0
       /\ inv.capital_gains_tax_krw >= 0
       /\ inv.capital_gains_tax_usd >= 0
       /\ inv.capital_gains_tax_krw
            <= Max(0, GainsKrw(inv) - inputs.capital_gains_deduction_krw)
       /\ LastInv.ASSET_KRW <= LastInv.PRE_TAX_ASSET_KRW

\* A run that ends with a loss and an allowance above zero.
C3_Witness ==
    /\ InvFinal
    /\ GainsKrw(inv) < 0
    /\ inputs.capital_gains_deduction_krw > 0
    /\ inputs.capital_gains_tax_rate > 0
    /\ inv.capital_gains_tax_krw = 0

\* The three rates of the zero-rate reduction are zero.
ZeroRates ==
    /\ inputs.annual_price_growth_rate = 0
    /\ inputs.annual_dividend_yield = 0
    /\ inputs.annual_expense_ratio = 0

\* seed_capital + monthly_contribution * horizon_years * 12.
TotalContributed ==
    inputs.seed_money_krw
      + inputs.monthly_investment_krw * inputs.investment_years * MONTHS_IN_YEAR

\* C4 as stated: with the three rates zero and every other input arbitrary,
\* the final record's cumulative contributions and post-tax asset value both
\* equal seed_capital + monthly_contribution * horizon_years * 12.
C4_ZeroRateAnyDrift ==
    (InvFinal /\ ZeroRates) =>
       /\ LastInv.PRINCIPAL_KRW = TotalContributed
       /\ LastInv.ASSET_KRW = TotalContributed

\* C4 as amended: with the three rates zero the final record's cumulative
\* contributions and post-tax asset value are equal to each other and no tax
\* is due; they equal seed_capital + monthly_contribution * horizon_years * 12
\* when the exchange-rate drift is zero as well, and that sum revalued at the
\* drifted exchange rate otherwise.
C4_ZeroRateReduction ==
    (InvFinal /\ ZeroRates) =>
       /\ LastInv.ASSET_KRW = LastInv.PRINCIPAL_KRW
       /\ inv.capital_gains_tax_krw = 0
       /\ LastInv.PRINCIPAL_KRW
            = FMul(FDiv(inputs.seed_money_krw, inputs.exchange_rate * SCALE)
                     + TotalMonths(inputs)
                         * FDiv(inputs.monthly_investment_krw,
                                inputs.exchange_rate * SCALE),
                   inv.current_exchange_rate)
       /\ inputs.annual_exchange_rate_change = 0 =>
            LastInv.PRINCIPAL_KRW = TotalContributed

\* A two-year run with zero rates and zero drift, a seed and a contribution.
C4_Witness ==
    /\ InvFinal
    /\ ZeroRates
    /\ inputs.annual_exchange_rate_change = 0
    /\ inputs.investment_years = 2
    /\ inputs.seed_money_krw > 0
    /\ inputs.monthly_investment_krw > 0
    /\ LastInv.ASSET_KRW = TotalContributed
    /\ TotalContributed > inputs.seed_money_krw

\* The inputs of the monotonicity claim: no negative contribution, seed,
\* growth rate or dividend yield.
NonNegativeInputs ==
    /\ inputs.monthly_investment_krw >= 0
    /\ inputs.seed_money_krw >= 0
    /\ inputs.annual_price_growth_rate >= 0
    /\ inputs.annual_dividend_yield >= 0

\* C8: with non-negative contributions, seed, growth rate and dividend
\* yield, asset_usd at the end of a month is not below asset_usd at the end
\* of the month before, unless the month deducts an expense (the monthly
\* expense ratio is above zero); the gains tax never lowers asset_usd.
C8_Monotone ==
    [][(pc = "inv" /\ NonNegativeInputs /\ inv.monthly_expense_ratio = 0)
          => inv'.asset_usd >= inv.asset_usd]_vars

\* A month of growth without expenses has passed and the asset has grown.
C8_Witness ==
    /\ pc = "inv"
    /\ NonNegativeInputs
    /\ inputs.annual_price_growth_rate > 0
    /\ inv.monthly_expense_ratio = 0
    /\ inv.month >= 2
    /\ inv.asset_usd > FDiv(inputs.seed_money_krw, inputs.exchange_rate * SCALE)
                         + inv.month * inv.monthly_investment_usd

\* C10: after every month cost_basis is the seed plus the contributions so
\* far (cumulative contributions) plus, only when dividends are reinvested,
\* the after-tax dividends so far; the month's after-tax dividend is added
\* to the cumulative dividends in both cases, and without reinvestment it
\* enters neither asset_usd nor cost_basis_usd.
C10_CostBasis ==
    /\ [](/\ inv.principal_usd
               = FDiv(inputs.seed_money_krw, inputs.exchange_rate * SCALE)
                   + inv.month * FDiv(inputs.monthly_investment_krw,
                                      inputs.exchange_rate * SCALE)
          /\ inputs.reinvest_dividends =>
               inv.cost_basis_usd = inv.principal_usd + inv.cumulative_dividends_usd
          /\ ~inputs.reinvest_dividends =>
               inv.cost_basis_usd = inv.principal_usd)
    /\ [][inv'.month = inv.month + 1 =>
            /\ inv'.cumulative_dividends_usd
                 = inv.cumulative_dividends_usd + inv'.dividend_after_tax
            /\ inv'.dividend_after_tax
                 = FMul(FMul(FMul(FMul(inv.asset_usd, SCALE + inv.monthly_growth_rate),
                                  SCALE - inv.monthly_expense_ratio),
                             inv.monthly_dividend_yield),
                        SCALE - Pct(inputs.dividend_tax_rate))
            /\ ~inputs.reinvest_dividends =>
                 /\ inv'.asset_usd
                      = FMul(FMul(inv.asset_usd, SCALE + inv.monthly_growth_rate),
                             SCALE - inv.monthly_expense_ratio)
                          + inv.monthly_investment_usd
                 /\ inv'.cost_basis_usd = inv.cost_basis_usd + inv.monthly_investment_usd
            /\ inputs.reinvest_dividends =>
                 inv'.cost_basis_usd = inv.cost_basis_usd + inv'.dividend_after_tax
                                         + inv.monthly_investment_usd]_vars

\* Dividends were paid out, not reinvested: the cumulative dividends are
\* above zero and the cost basis holds the contributions alone.
C10_Witness ==
    /\ ~inputs.reinvest_dividends
    /\ inv.month >= 2
    /\ inv.dividend_after_tax > 0
    /\ inv.cumulative_dividends_usd > inv.dividend_after_tax
    /\ inputs.monthly_investment_krw > 0
    /\ inv.cost_basis_usd = inv.principal_usd

\* m is the monthly rate of the annual rate r (percent) by compounding, to
\* the last fixed-point place: (1 + m) ** 12 <= 1 + r / 100 < (1 + m') ** 12
\* for the next rate m' above m.
IsCompoundMonthly(m, r) ==
    /\ Pow(SCALE + m, MONTHS_IN_YEAR) <= SCALE + Pct(r)
    /\ Pow(SCALE + m + 1, MONTHS_IN_YEAR) > SCALE + Pct(r)

\* A deposit left alone: no contributions, no interest tax, a seed, a horizon
\* of a year or more, both engines done.
DepositLeftAlone ==
    /\ pc = "done"
    /\ inputs.investment_years >= 1
    /\ inputs.monthly_investment_krw = 0
    /\ inputs.savings_tax_rate = 0
    /\ inputs.seed_money_krw > 0

\* The seed grown by the factor 1 + savings_interest_rate / 100.
SeedAtAnnualRate ==
    inputs.seed_money_krw + FMul(inputs.seed_money_krw, Pct(inputs.savings_interest_rate))

\* C5 as stated: the deposit rate is converted by the compounding formula as
\* the other rates are, so a deposit left alone for 12 months grows by the
\* factor 1 + savings_interest_rate / 100 (to the rounding slack), the factor
\* of the investment engine's asset at an equal price-growth rate.
C5_DepositCompoundsLikeAsset ==
    DepositLeftAlone =>
       Abs(sav.results[1].SAVINGS_ASSET_KRW - SeedAtAnnualRate) <= RoundingSlack

\* C5 as amended: the four rates of the investment engine are converted by
\* the compounding formula, the deposit rate is divided by 12 instead: 12
\* times the monthly deposit rate is the annual rate, and a deposit left
\* alone for 12 months grows by (1 + r / 1200) ** 12, which is at least the
\* factor 1 + r / 100 and at least the asset's factor at an equal
\* price-growth rate.
C5_DepositRateDivided ==
    /\ IsCompoundMonthly(inv.monthly_growth_rate, inputs.annual_price_growth_rate)
    /\ IsCompoundMonthly(inv.monthly_dividend_yield, inputs.annual_dividend_yield)
    /\ IsCompoundMonthly(inv.monthly_expense_ratio, inputs.annual_expense_ratio)
    /\ IsCompoundMonthly(inv.monthly_exchange_rate_change,
                         inputs.annual_exchange_rate_change)
    /\ sav.monthly_rate * MONTHS_IN_YEAR <= Pct(inputs.savings_interest_rate)
    /\ (sav.monthly_rate + 1) * MONTHS_IN_YEAR > Pct(inputs.savings_interest_rate)
    /\ DepositLeftAlone =>
         /\ sav.results[1].SAVINGS_ASSET_KRW >= SeedAtAnnualRate
         /\ (/\ inputs.annual_price_growth_rate = inputs.savings_interest_rate
             /\ inputs.annual_dividend_yield = 0
             /\ inputs.annual_expense_ratio = 0) =>
               inv.results[1].PRE_TAX_ASSET_KRW <= sav.results[1].SAVINGS_ASSET_KRW

\* A deposit and an asset at the same rate of 12 percent, left alone for a
\* year: the deposit has outgrown 1 + r / 100 and the asset by more than the
\* rounding slack.
C5_Witness ==
    /\ DepositLeftAlone
    /\ inputs.savings_interest_rate = 12
    /\ inputs.annual_price_growth_rate = 12
    /\ inputs.annual_dividend_yield = 0
    /\ inputs.annual_expense_ratio = 0
    /\ sav.results[1].SAVINGS_ASSET_KRW > SeedAtAnnualRate + RoundingSlack
    /\ sav.results[1].SAVINGS_ASSET_KRW
          > inv.results[1].PRE_TAX_ASSET_KRW + RoundingSlack

\* The balance a year of the savings run started from: the seed, or the
\* record of the year before.
BalanceBefore(y) ==
    IF y = 1 THEN inputs.seed_money_krw ELSE sav.results[y - 1].SAVINGS_ASSET_KRW

\* The interest of year y alone, read off the balances: what the year added
\* to the balance beyond its 12 contributions, before tax.
InterestOfYear(y, tax) ==
    sav.results[y].SAVINGS_ASSET_KRW + tax - BalanceBefore(y)
      - MONTHS_IN_YEAR * inputs.monthly_investment_krw

\* C6: the interest tax is settled at every year end: the tax subtracted at
\* the end of year y is max(0, interest of year y alone) times the tax rate,
\* the record of year y holds the balance after the subtraction, and the
\* year's interest counter is 0 when a year starts.
C6_TaxEveryYear ==
    IsYearEnd(sav.month) =>
       /\ sav.interest_for_year = 0
       /\ sav.month > 0 =>
            LET y == sav.month \div MONTHS_IN_YEAR
            IN  /\ Len(sav.results) = y
                /\ sav.results[y].SAVINGS_ASSET_KRW = sav.asset
                /\ sav.tax = FMul(Max(0, InterestOfYear(y, sav.tax)),
                                  Pct(inputs.savings_tax_rate))

\* The second year of a taxed, interest-bearing deposit has been settled.
C6_Witness ==
    /\ sav.month = 2 * MONTHS_IN_YEAR
    /\ inputs.savings_tax_rate > 0
    /\ inputs.savings_interest_rate > 0
    /\ sav.tax > 0
    /\ InterestOfYear(1, 0) > 0
    /\ InterestOfYear(2, sav.tax) > 0

\* The asset-currency figures the two runs carry from month to month.
SameMonthlyFigures ==
    /\ inv.month = twin.month
    /\ inv.asset_usd = twin.asset_usd
    /\ inv.principal_usd = twin.principal_usd
    /\ inv.cost_basis_usd = twin.cost_basis_usd
    /\ inv.cumulative_dividends_usd = twin.cumulative_dividends_usd
    /\ inv.dividend_after_tax = twin.dividend_after_tax

\* The final year's tax and post-tax asset value in the asset currency, the
\* same in both runs to the rounding slack.
SameFinalTax ==
    /\ Abs(inv.capital_gains_tax_usd - twin.capital_gains_tax_usd) <= RoundingSlack
    /\ Abs(inv.final_asset_usd - twin.final_asset_usd) <= RoundingSlack

\* C7 as stated: two runs that differ only in annual_exchange_rate_change
\* have the same asset-currency figures in every month, and the same
\* capital-gains tax and post-tax asset value in the asset currency.
C7_DriftChangesNothing ==
    /\ SameMonthlyFigures
    /\ SameFinalTax

\* C7 as amended: two runs that differ only in annual_exchange_rate_change
\* have the same asset value, cumulative contributions, cost basis and
\* after-tax dividends in the asset currency in every month, and the same
\* pre-tax asset value in every record; the final year's capital-gains tax
\* and post-tax asset value in the asset currency are the same only when no
\* allowance is set against the gain (the allowance is an amount of the
\* reporting currency, converted at the drifted rate).
C7_DriftLeavesAssetArithmetic ==
    /\ SameMonthlyFigures
    /\ Len(inv.results) = Len(twin.results)
    /\ inv.final_asset_usd + inv.capital_gains_tax_usd
          = twin.final_asset_usd + twin.capital_gains_tax_usd
    /\ inputs.capital_gains_deduction_krw = 0 => SameFinalTax

\* Two finished runs with drifts of -10 and 10 percent: the same asset and
\* cost basis, a taxed gain in both, and taxes further apart than rounding.
C7_Witness ==
    /\ pc = "done"
    /\ inputs.investment_years >= 1
    /\ inputs.annual_exchange_rate_change = -10
    /\ inputs2.annual_exchange_rate_change = 10
    /\ inv.asset_usd = twin.asset_usd
    /\ inv.asset_usd > inv.cost_basis_usd
    /\ inv.capital_gains_tax_usd > 0
    /\ twin.capital_gains_tax_usd > inv.capital_gains_tax_usd + RoundingSlack

\* C9: a script run whose button is pressed with investment_years <= 0 calls
\* neither engine, leaves the session's results and inputs as they were,
\* sets simulation_run to False, warns, and shows the hint instead of the
\* summary and the table, whatever an earlier run left in the session.
C9_InvalidHorizonRejected ==
    [][(run_button' /\ inputs'.investment_years <= 0) =>
          /\ calls' = << >>
          /\ session'.results_df = session.results_df
          /\ session'.inputs = session.inputs
          /\ session'.simulation_run = FALSE
          /\ message' = "warning"
          /\ displayed' = "info"]_vars

\* A run with a horizon of 0 years was rejected while the session holds the
\* results of an earlier, successful run.
C9_Witness ==
    /\ run_button
    /\ inputs.investment_years = 0
    /\ session.results_df # NoFrame
    /\ session.inputs.investment_years > 0
    /\ ~session.simulation_run
    /\ calls = << >>
    /\ displayed = "info"

====
